---- MODULE Spec2Model ----
(***************************************************************************)
(* Model of ghas-licensing-by-tool.js: one run of main().  The run parses  *)
(* its arguments, requests the enterprise billing summary, lists the       *)
(* per-repository billing, inspects every considered repository            *)
(* (code-security configuration, repository settings, recent analyses) and *)
(* reports the unique committers per tool.  Every awaited request is a     *)
(* state of pc; the response to it is chosen by the environment.           *)
(***************************************************************************)
EXTENDS Integers, Sequences, FiniteSets, TLC

VARIABLES argv, pc, exitCode, usagePrinted, requests, iterRequests, retryCount, gaveUp,
          retryLog, repos, filteredRepos, repoCountLine, idx, visited,
          owner, repo, committers, secretProtectionEnabled,
          codeScanningEnabled, successfullyProcessed,
          secretProtectionCommitters, codeScanningCommitters,
          configOk, configFailed, secretByPrecedence, codeByPrecedence,
          report

vars == <<argv, pc, exitCode, usagePrinted, requests, iterRequests, retryCount, gaveUp,
          retryLog, repos, filteredRepos, repoCountLine, idx, visited,
          owner, repo, committers, secretProtectionEnabled,
          codeScanningEnabled, successfullyProcessed,
          secretProtectionCommitters, codeScanningCommitters,
          configOk, configFailed, secretByPrecedence, codeByPrecedence,
          report>>

-----------------------------------------------------------------------------
(* Bounds of the model *)

\* longest billing listing the enterprise returns
MaxRepos == 2

\* most rate-limit responses the server sends to one request
MaxRateLimits == 3

-----------------------------------------------------------------------------
(* Input universe.  A name is a sequence of characters; a login is a       *)
(* sequence of UTF-16 code units, which is what the default sort compares. *)

Range(s) == {s[k] : k \in 1..Len(s)}

SeqsUpTo(S, n) == UNION {[1..k -> S] : k \in 0..n}

LoginB == <<98>>
LoginA == <<97>>
LoginAB == <<97, 98>>
LoginUpperB == <<66>>

Billing(n, b) == [name |-> n, advanced_security_committers_breakdown |-> b]

RepoUniverse ==
  { Billing(<<"a", "/", "x">>, <<LoginB, LoginAB>>),
    Billing(<<"a", "/", "x">>, <<LoginAB, LoginUpperB, LoginAB>>),
    Billing(<<"a", "b", "/", "y">>, <<LoginA>>),
    Billing(<<"a", "/", "b", "/", "w">>, <<LoginB, LoginA>>) }

Enterprises == { <<>>, <<"e">> }

Orgs == { <<>>, <<"a">>, <<"a", "/", "b">> }

ArgvSet ==
  [enterprise : Enterprises, org : Orgs, help : BOOLEAN, verbose : BOOLEAN]

ConfigResponses ==
  [status : {"attached", "detached"},
   secret_scanning : {"enabled", "disabled"},
   code_scanning_default_setup : {"enabled", "disabled"}]

\* octokit.repos.get resolves with a status and, on 200, the settings
SettingsResponses ==
  [status : {200}, secret_scanning : {"enabled", "disabled"}]
    \cup [status : {301}, secret_scanning : {"disabled"}]

\* length of the data array of listRecentAnalyses
AnalysesLengths == {0, 1}

-----------------------------------------------------------------------------
(* Library functions of the run, as the code uses them *)

\* String.prototype.startsWith
StartsWith(s, p) ==
  /\ Len(p) <= Len(s)
  /\ \A k \in 1..Len(p) : s[k] = p[k]

\* String.prototype.split("/")
RECURSIVE SplitAcc(_, _, _)
SplitAcc(s, cur, acc) ==
  IF s = <<>> THEN Append(acc, cur)
  ELSE IF Head(s) = "/" THEN SplitAcc(Tail(s), <<>>, Append(acc, cur))
  ELSE SplitAcc(Tail(s), Append(cur, Head(s)), acc)

Split(s) == SplitAcc(s, <<>>, <<>>)

\* a value is truthy when it is a non-empty string
Truthy(s) == s # <<>>

\* Set.prototype.add on a Set kept in insertion order
SetAdd(set, x) == IF x \in Range(set) THEN set ELSE Append(set, x)

\* committers.forEach((committer) => set.add(committer.user_login))
RECURSIVE AddAll(_, _)
AddAll(set, logins) ==
  IF logins = <<>> THEN set
  ELSE AddAll(SetAdd(set, Head(logins)), Tail(logins))

\* comparison of two strings by UTF-16 code units
RECURSIVE LexLess(_, _)
LexLess(a, b) ==
  IF b = <<>> THEN FALSE
  ELSE IF a = <<>> THEN TRUE
  ELSE IF Head(a) # Head(b) THEN Head(a) < Head(b)
  ELSE LexLess(Tail(a), Tail(b))

RECURSIVE Insert(_, _)
Insert(x, s) ==
  IF s = <<>> THEN <<x>>
  ELSE IF LexLess(Head(s), x) THEN <<Head(s)>> \o Insert(x, Tail(s))
  ELSE <<x>> \o s

SortKeepsOrder(a) == a

\* Array.prototype.sort() with the default comparison
RECURSIVE Sort(_)
Sort(a) == IF a = <<>> THEN <<>> ELSE Insert(Head(a), Sort(Tail(a)))

\* Array.prototype.filter
RECURSIVE Filter(_, _)
Filter(s, org) ==
  IF s = <<>> THEN <<>>
  ELSE IF StartsWith(Head(s).name, org \o <<"/">>)
       THEN <<Head(s)>> \o Filter(Tail(s), org)
       ELSE Filter(Tail(s), org)

-----------------------------------------------------------------------------
(* Decisions of main() *)

onRateLimitTwice(count) == count <= 1

\* throttle.onRateLimit: the returned value, truthy asks for a retry
onRateLimit(count) == count < 1

\* throttle.onSecondaryRateLimit: returns undefined
onSecondaryRateLimit == FALSE

UsageRequestedBoth(a) == a.help /\ ~Truthy(a.enterprise)

\* if (argv.help || !argv.enterprise)
UsageRequested(a) == a.help \/ ~Truthy(a.enterprise)

FilterReposUnfiltered(rs, org) == rs

\* argv.org ? repos.filter(...) : repos
FilterRepos(rs, org) == IF Truthy(org) THEN Filter(rs, org) ELSE rs

\* if (argv.org && owner !== argv.org)
OrgMismatch(org, own) == Truthy(org) /\ own # org

ConfigSecretAnyStatus(cfg) == cfg.secret_scanning = "enabled"

\* the configuration sets the secret scanning flag
ConfigSecret(cfg) ==
  cfg.status = "attached" /\ cfg.secret_scanning = "enabled"

\* the configuration sets the code scanning flag
ConfigCode(cfg) ==
  cfg.status = "attached" /\ cfg.code_scanning_default_setup = "enabled"

CountProcessedAttached(n, cfg) ==
  IF cfg.status = "attached" THEN n + 1 ELSE n

\* successfullyProcessed++ at the end of the try block, whatever cfg holds
CountProcessed(n, cfg) == n + 1

\* where the catch block of the configuration request leads
AfterConfigError == "loop"

\* where a settings response with status other than 200 leads
AfterSettingsError == "loop"

\* securityAndAnalysis.secret_scanning.status === "enabled"
SettingsSecret(resp) == resp.secret_scanning = "enabled"

\* analyses?.data?.length > 0
AnalysesPresent(n) == n > 0

Awaiting == {"summary", "listing", "config", "settings", "analyses"}

RepoRequest(kind, own, rep) == [kind |-> kind, owner |-> own, repo |-> rep]

-----------------------------------------------------------------------------

Init ==
  /\ argv \in ArgvSet
  /\ pc = "start"
  /\ exitCode = <<>>
  /\ usagePrinted = FALSE
  /\ requests = {}
  /\ iterRequests = {}
  /\ retryCount = 0
  /\ gaveUp = FALSE
  /\ retryLog = [primary |-> 0, secondary |-> 0]
  /\ repos = <<>>
  /\ filteredRepos = <<>>
  /\ repoCountLine = <<>>
  /\ idx = 0
  /\ visited = <<>>
  /\ owner = <<>>
  /\ repo = <<>>
  /\ committers = <<>>
  /\ secretProtectionEnabled = FALSE
  /\ codeScanningEnabled = FALSE
  /\ successfullyProcessed = 0
  /\ secretProtectionCommitters = <<>>
  /\ codeScanningCommitters = <<>>
  /\ configOk = {}
  /\ configFailed = {}
  /\ secretByPrecedence = {}
  /\ codeByPrecedence = {}
  /\ report = <<>>


-----------------------------------------------------------------------------
(* Groups of variables *)

throttle == <<retryCount, gaveUp, retryLog>>
network == <<requests, iterRequests>>
listing == <<repos, filteredRepos, repoCountLine>>
iteration == <<idx, visited, owner, repo, committers>>
flags == <<secretProtectionEnabled, codeScanningEnabled>>
sets == <<secretProtectionCommitters, codeScanningCommitters>>
history == <<configOk, configFailed, secretByPrecedence, codeByPrecedence>>
outputs == <<exitCode, usagePrinted, report>>

-----------------------------------------------------------------------------
(* The throttling plugin around every request: a rate-limit response calls *)
(* the handler, a truthy answer sends the request again with retryCount    *)
(* one higher, any other answer makes the request fail.                    *)

\* a request is sent, or its response is taken: the retry state starts anew
FreshThrottle ==
  /\ retryCount' = 0
  /\ gaveUp' = FALSE
  /\ retryLog' = [primary |-> 0, secondary |-> 0]

PrimaryRateLimit ==
  /\ pc \in Awaiting
  /\ ~gaveUp
  /\ retryCount < MaxRateLimits
  /\ IF onRateLimit(retryCount)
       THEN /\ retryCount' = retryCount + 1
            /\ retryLog' = [retryLog EXCEPT !.primary = @ + 1]
            /\ gaveUp' = FALSE
       ELSE /\ gaveUp' = TRUE
            /\ UNCHANGED <<retryCount, retryLog>>
  /\ UNCHANGED <<argv, pc, network, listing, iteration, flags,
                 successfullyProcessed, sets, history, outputs>>

SecondaryRateLimit ==
  /\ pc \in Awaiting
  /\ ~gaveUp
  /\ retryCount < MaxRateLimits
  /\ IF onSecondaryRateLimit
       THEN /\ retryCount' = retryCount + 1
            /\ retryLog' = [retryLog EXCEPT !.secondary = @ + 1]
            /\ gaveUp' = FALSE
       ELSE /\ gaveUp' = TRUE
            /\ UNCHANGED <<retryCount, retryLog>>
  /\ UNCHANGED <<argv, pc, network, listing, iteration, flags,
                 successfullyProcessed, sets, history, outputs>>

-----------------------------------------------------------------------------
(* main(), one action per stretch of code between two awaits or branches *)

\* lines 44-52: usage and process.exit(1)
Usage ==
  /\ pc = "start"
  /\ UsageRequested(argv)
  /\ usagePrinted' = TRUE
  /\ exitCode' = <<1>>
  /\ pc' = "exited"
  /\ UNCHANGED <<argv, throttle, network, listing, iteration, flags,
                 successfullyProcessed, sets, history, report>>

\* lines 54-65: the billing summary is requested
RequestSummary ==
  /\ pc = "start"
  /\ ~UsageRequested(argv)
  /\ requests' = requests \cup {"summary"}
  /\ FreshThrottle
  /\ pc' = "summary"
  /\ UNCHANGED <<argv, iterRequests, listing, iteration, flags,
                 successfullyProcessed, sets, history, outputs>>

\* lines 67-83: the summary is printed and the listing is requested
SummaryOk ==
  /\ pc = "summary"
  /\ ~gaveUp
  /\ requests' = requests \cup {"listing"}
  /\ FreshThrottle
  /\ pc' = "listing"
  /\ UNCHANGED <<argv, iterRequests, listing, iteration, flags,
                 successfullyProcessed, sets, history, outputs>>

\* a rejected promise that no try block encloses ends the process
Crash ==
  /\ pc' = "crashed"
  /\ exitCode' = <<1>>
  /\ FreshThrottle
  /\ UNCHANGED <<argv, network, listing, iteration, flags,
                 successfullyProcessed, sets, history, usagePrinted, report>>

\* line 60: the summary request fails
SummaryRejects ==
  /\ pc = "summary"
  /\ Crash

\* line 77: the listing request fails
ListingRejects ==
  /\ pc = "listing"
  /\ Crash

\* lines 85-97: the listing is filtered and the repository count is printed
ListingOk ==
  /\ pc = "listing"
  /\ ~gaveUp
  /\ \E rs \in SeqsUpTo(RepoUniverse, MaxRepos) :
       /\ repos' = rs
       /\ filteredRepos' = FilterRepos(rs, argv.org)
       /\ repoCountLine' = <<Len(FilterRepos(rs, argv.org))>>
  /\ successfullyProcessed' = 0
  /\ FreshThrottle
  /\ pc' = "loop"
  /\ UNCHANGED <<argv, network, iteration, flags, sets, history, outputs>>

\* lines 99-130: the next repository, its configuration is requested
NextRepo ==
  /\ pc = "loop"
  /\ idx < Len(filteredRepos)
  /\ LET repo_data == filteredRepos[idx + 1]
         parts == Split(repo_data.name)
     IN /\ ~OrgMismatch(argv.org, parts[1])
        /\ owner' = parts[1]
        /\ repo' = parts[2]
        /\ committers' = repo_data.advanced_security_committers_breakdown
        /\ iterRequests' = {RepoRequest("config", parts[1], parts[2])}
  /\ requests' = requests \cup {"config"}
  /\ idx' = idx + 1
  /\ visited' = Append(visited, idx + 1)
  /\ secretProtectionEnabled' = FALSE
  /\ codeScanningEnabled' = FALSE
  /\ FreshThrottle
  /\ pc' = "config"
  /\ UNCHANGED <<argv, listing, successfullyProcessed, sets, history,
                 outputs>>

\* lines 99-114: the next repository is of another owner and is skipped
SkipRepo ==
  /\ pc = "loop"
  /\ idx < Len(filteredRepos)
  /\ LET repo_data == filteredRepos[idx + 1]
         parts == Split(repo_data.name)
     IN /\ OrgMismatch(argv.org, parts[1])
        /\ owner' = parts[1]
        /\ repo' = parts[2]
        /\ committers' = repo_data.advanced_security_committers_breakdown
  /\ iterRequests' = {}
  /\ idx' = idx + 1
  /\ visited' = Append(visited, idx + 1)
  /\ pc' = "loop"
  /\ UNCHANGED <<argv, throttle, requests, listing, flags,
                 successfullyProcessed, sets, history, outputs>>

\* lines 132-141: the configuration arrives
ConfigOk ==
  /\ pc = "config"
  /\ ~gaveUp
  /\ \E cfg \in ConfigResponses :
       /\ secretProtectionEnabled' = ConfigSecret(cfg)
       /\ codeScanningEnabled' = ConfigCode(cfg)
       /\ successfullyProcessed' = CountProcessed(successfullyProcessed, cfg)
       /\ secretByPrecedence' =
            IF cfg.status = "attached" /\ cfg.secret_scanning = "enabled"
              THEN secretByPrecedence \cup {idx} ELSE secretByPrecedence
       /\ codeByPrecedence' =
            IF cfg.status = "attached"
                 /\ cfg.code_scanning_default_setup = "enabled"
              THEN codeByPrecedence \cup {idx} ELSE codeByPrecedence
  /\ configOk' = configOk \cup {idx}
  /\ FreshThrottle
  /\ pc' = "checkSecret"
  /\ UNCHANGED <<argv, network, listing, iteration, sets, configFailed,
                 outputs>>

\* lines 143-149: the try block throws, at the request or at a field read
ConfigRejects ==
  /\ pc = "config"
  /\ configFailed' = configFailed \cup {idx}
  /\ FreshThrottle
  /\ pc' = AfterConfigError
  /\ UNCHANGED <<argv, network, listing, iteration, flags,
                 successfullyProcessed, sets, configOk, secretByPrecedence,
                 codeByPrecedence, outputs>>

\* lines 151-156: the settings are requested unless the flag is set
CheckSecret ==
  /\ pc = "checkSecret"
  /\ IF ~secretProtectionEnabled
       THEN /\ requests' = requests \cup {"settings"}
            /\ iterRequests' =
                 iterRequests \cup {RepoRequest("settings", owner, repo)}
            /\ pc' = "settings"
       ELSE /\ pc' = "addSecret"
            /\ UNCHANGED network
  /\ FreshThrottle
  /\ UNCHANGED <<argv, listing, iteration, flags, successfullyProcessed,
                 sets, history, outputs>>

\* lines 158-166: the settings arrive with status 200
SettingsOk ==
  /\ pc = "settings"
  /\ ~gaveUp
  /\ \E resp \in SettingsResponses :
       /\ resp.status = 200
       /\ secretProtectionEnabled' = SettingsSecret(resp)
       /\ secretByPrecedence' =
            IF resp.secret_scanning = "enabled"
              THEN secretByPrecedence \cup {idx} ELSE secretByPrecedence
  /\ FreshThrottle
  /\ pc' = "addSecret"
  /\ UNCHANGED <<argv, network, listing, iteration, codeScanningEnabled,
                 successfullyProcessed, sets, configOk, configFailed,
                 codeByPrecedence, outputs>>

\* lines 158-161: the settings arrive with another status
SettingsNotOk ==
  /\ pc = "settings"
  /\ ~gaveUp
  /\ \E resp \in SettingsResponses : resp.status # 200
  /\ FreshThrottle
  /\ pc' = AfterSettingsError
  /\ UNCHANGED <<argv, network, listing, iteration, flags,
                 successfullyProcessed, sets, history, outputs>>

\* lines 153-164: the settings request fails, or a field read of its data
\* throws, outside any try block
SettingsRejects ==
  /\ pc = "settings"
  /\ Crash

\* lines 169-173: the committers join the secret scanning set
AddSecret ==
  /\ pc = "addSecret"
  /\ secretProtectionCommitters' =
       IF secretProtectionEnabled
         THEN AddAll(secretProtectionCommitters, committers)
         ELSE secretProtectionCommitters
  /\ pc' = "checkCode"
  /\ UNCHANGED <<argv, throttle, network, listing, iteration, flags,
                 successfullyProcessed, codeScanningCommitters, history,
                 outputs>>

\* lines 175-181: the analyses are requested unless the flag is set
CheckCode ==
  /\ pc = "checkCode"
  /\ IF ~codeScanningEnabled
       THEN /\ requests' = requests \cup {"analyses"}
            /\ iterRequests' =
                 iterRequests \cup {RepoRequest("analyses", owner, repo)}
            /\ pc' = "analyses"
       ELSE /\ pc' = "addCode"
            /\ UNCHANGED network
  /\ FreshThrottle
  /\ UNCHANGED <<argv, listing, iteration, flags, successfullyProcessed,
                 sets, history, outputs>>

\* lines 183-185: the analyses arrive
AnalysesOk ==
  /\ pc = "analyses"
  /\ ~gaveUp
  /\ \E n \in AnalysesLengths :
       /\ codeScanningEnabled' = AnalysesPresent(n)
       /\ codeByPrecedence' =
            IF n >= 1 THEN codeByPrecedence \cup {idx} ELSE codeByPrecedence
  /\ FreshThrottle
  /\ pc' = "addCode"
  /\ UNCHANGED <<argv, network, listing, iteration, secretProtectionEnabled,
                 successfullyProcessed, sets, configOk, configFailed,
                 secretByPrecedence, outputs>>

\* lines 186-188: the analyses request fails
AnalysesRejects ==
  /\ pc = "analyses"
  /\ FreshThrottle
  /\ pc' = "loop"
  /\ UNCHANGED <<argv, network, listing, iteration, flags,
                 successfullyProcessed, sets, history, outputs>>

\* lines 191-196: the committers join the code scanning set
AddCode ==
  /\ pc = "addCode"
  /\ codeScanningCommitters' =
       IF codeScanningEnabled
         THEN AddAll(codeScanningCommitters, committers)
         ELSE codeScanningCommitters
  /\ pc' = "loop"
  /\ UNCHANGED <<argv, throttle, network, listing, iteration, flags,
                 successfullyProcessed, secretProtectionCommitters, history,
                 outputs>>

\* lines 198-220: the final report, and main() returns
Report ==
  /\ pc = "loop"
  /\ idx = Len(filteredRepos)
  /\ LET secretProtectionArray == secretProtectionCommitters
         codeScanningArray == codeScanningCommitters
     IN report' =
          <<[processed |-> successfullyProcessed,
             total |-> Len(filteredRepos),
             secret |-> Len(secretProtectionArray),
             code |-> Len(codeScanningArray),
             lists |-> IF argv.verbose
                         THEN <<Sort(secretProtectionArray),
                                Sort(codeScanningArray)>>
                         ELSE <<>>]>>
  /\ exitCode' = <<0>>
  /\ pc' = "done"
  /\ UNCHANGED <<argv, throttle, network, listing, iteration, flags,
                 successfullyProcessed, sets, history, usagePrinted>>

Next ==
  \/ PrimaryRateLimit
  \/ SecondaryRateLimit
  \/ Usage
  \/ RequestSummary
  \/ SummaryOk
  \/ SummaryRejects
  \/ ListingRejects
  \/ ListingOk
  \/ NextRepo
  \/ SkipRepo
  \/ ConfigOk
  \/ ConfigRejects
  \/ CheckSecret
  \/ SettingsOk
  \/ SettingsNotOk
  \/ SettingsRejects
  \/ AddSecret
  \/ CheckCode
  \/ AnalysesOk
  \/ AnalysesRejects
  \/ AddCode
  \/ Report

Spec == Init /\ [][Next]_vars

-----------------------------------------------------------------------------
(* Vocabulary of the properties *)

NoDuplicates(s) == \A m, n \in 1..Len(s) : s[m] = s[n] => m = n

IsPrefix(s, t) == Len(s) <= Len(t) /\ \A k \in 1..Len(s) : s[k] = t[k]

\* the full name starts with "<org>/"
InOrg(name) ==
  /\ Len(name) >= Len(argv.org) + 1
  /\ \A k \in 1..Len(argv.org) : name[k] = argv.org[k]
  /\ name[Len(argv.org) + 1] = "/"

\* the logins in the breakdowns of the repositories of rs at the positions K
LoginsOf(rs, K) ==
  UNION {Range(rs[k].advanced_security_committers_breakdown) : k \in K}

\* a comes strictly before b in the order of UTF-16 code units
CodeUnitBefore(a, b) ==
  \E k \in 1..(Len(b)) :
    /\ \A j \in 1..(k - 1) : j <= Len(a) /\ a[j] = b[j]
    /\ \/ Len(a) = k - 1
       \/ Len(a) >= k /\ a[k] < b[k]

StrictlyAscending(s) ==
  \A k \in 1..(Len(s) - 1) : CodeUnitBefore(s[k], s[k + 1])

\* the iteration of repository idx is past the secret scanning aggregation
PastSecretStep == pc \in {"checkCode", "analyses", "addCode", "loop", "done"}

-----------------------------------------------------------------------------
(* C1 *)

\* C1, as stated: when the configuration request of a repository fails, its
\* iteration still performs the repository-settings check and the
\* recent-analyses probe before it ends.
C1_FallbackStillRuns ==
  (pc = "loop" /\ idx \in configFailed) =>
     /\ RepoRequest("settings", owner, repo) \in iterRequests
     /\ RepoRequest("analyses", owner, repo) \in iterRequests

-----------------------------------------------------------------------------
(* C2 *)

\* C2: a repository whose configuration request succeeded contributes to the
\* secret scanning set exactly when the attached configuration enables secret
\* scanning or else the settings report it enabled; once its aggregation step
\* is over the set holds exactly the logins of those repositories.
C2_SecretSetByPrecedence ==
  /\ secretByPrecedence \subseteq configOk
  /\ Range(secretProtectionCommitters)
       \subseteq LoginsOf(filteredRepos, secretByPrecedence)
  /\ PastSecretStep =>
       Range(secretProtectionCommitters)
         = LoginsOf(filteredRepos, secretByPrecedence)

C2_Witness ==
  /\ pc = "done"
  /\ secretByPrecedence = {2}
  /\ configOk = {1, 2}
  /\ Len(secretProtectionCommitters) >= 2

-----------------------------------------------------------------------------
(* C3 *)

\* C3, as stated: at the end of the run the code scanning set holds every
\* login of every repository whose attached configuration enables the default
\* setup or whose probe returned an analysis, whatever happened in its secret
\* scanning check.
C3_CodeSetByPrecedence ==
  pc = "done" =>
    LoginsOf(filteredRepos, codeByPrecedence)
      \subseteq Range(codeScanningCommitters)

-----------------------------------------------------------------------------
(* C4 *)

\* C4: with an org filter, every request about a repository is about one whose
\* full name starts with "<org>/", every login of either set comes from such
\* a repository of the listing, and the printed repository count and the
\* denominator of the final line are the number of such repositories.
C4_OrgFilter ==
  argv.org # <<>> =>
    LET inOrg == {k \in 1..Len(repos) : InOrg(repos[k].name)}
    IN /\ \A r \in iterRequests :
            /\ r.owner = argv.org
            /\ InOrg(filteredRepos[idx].name)
            /\ IsPrefix(r.owner \o <<"/">> \o r.repo, filteredRepos[idx].name)
       /\ Range(secretProtectionCommitters) \cup Range(codeScanningCommitters)
            \subseteq LoginsOf(repos, inOrg)
       /\ repoCountLine # <<>> => repoCountLine[1] = Cardinality(inOrg)
       /\ report # <<>> => report[1].total = Cardinality(inOrg)

C4_Witness ==
  /\ argv.org # <<>>
  /\ pc = "done"
  /\ Len(repos) = 2
  /\ report[1].total = 1
  /\ secretProtectionCommitters # <<>>
  /\ codeScanningCommitters # <<>>

-----------------------------------------------------------------------------
(* C5 *)

\* C5, the part that does not depend on which repositories reach their
\* aggregation step: neither set ever holds a login twice, a set only grows,
\* an aggregation step adds exactly the logins of the repository that are not
\* yet members, and the reported counts are the sizes of the sets.
C5_UniqueLogins ==
  /\ [](/\ NoDuplicates(secretProtectionCommitters)
        /\ NoDuplicates(codeScanningCommitters)
        /\ report # <<>> =>
             /\ report[1].secret
                  = Cardinality(Range(secretProtectionCommitters))
             /\ report[1].code = Cardinality(Range(codeScanningCommitters)))
  /\ [][/\ IsPrefix(secretProtectionCommitters, secretProtectionCommitters')
        /\ IsPrefix(codeScanningCommitters, codeScanningCommitters')
        /\ (pc = "addSecret" /\ secretProtectionEnabled) =>
             Range(secretProtectionCommitters')
               = Range(secretProtectionCommitters) \cup Range(committers)
        /\ (pc = "addCode" /\ codeScanningEnabled) =>
             Range(codeScanningCommitters')
               = Range(codeScanningCommitters) \cup Range(committers)]_vars

\* C5, as stated: after any prefix of the loop a login of a repository on
\* which the tool is enabled (by the precedence of C2 and C3) is a member of
\* the tool's set exactly once, and the reported count of each tool is the
\* number of distinct logins over those repositories.
C5_CountsOverQualifying ==
  LET once(set, login) == Cardinality({k \in 1..Len(set) : set[k] = login}) = 1
  IN /\ PastSecretStep =>
          \A login \in LoginsOf(filteredRepos, secretByPrecedence) :
             once(secretProtectionCommitters, login)
     /\ pc \in {"loop", "done"} =>
          \A login \in LoginsOf(filteredRepos, codeByPrecedence) :
             once(codeScanningCommitters, login)
     /\ report # <<>> =>
          /\ report[1].secret
               = Cardinality(LoginsOf(filteredRepos, secretByPrecedence))
          /\ report[1].code
               = Cardinality(LoginsOf(filteredRepos, codeByPrecedence))

-----------------------------------------------------------------------------
(* C6 *)

\* C6: with the help flag or without an enterprise the run issues no request
\* at all: its only step prints the usage and exits with status 1.
C6_UsageBeforeAnyRequest ==
  (argv.help \/ argv.enterprise = <<>>) =>
     /\ requests = {}
     /\ iterRequests = {}
     /\ pc \in {"start", "exited"}
     /\ pc = "start" => ENABLED Usage
     /\ pc = "exited" => usagePrinted /\ exitCode = <<1>>

C6_Witness ==
  /\ pc = "exited"
  /\ argv.help
  /\ argv.enterprise # <<>>
  /\ usagePrinted

-----------------------------------------------------------------------------
(* C7 *)

\* C7: the counter is the number of repositories visited so far whose
\* configuration request succeeded, whatever the configuration says, and it
\* never exceeds the number of repositories considered.
C7_CounterCountsConfigSuccesses ==
  /\ successfullyProcessed = Cardinality(configOk)
  /\ configOk \subseteq Range(visited)
  /\ configOk \cap configFailed = {}
  /\ successfullyProcessed <= Len(filteredRepos)
  /\ report # <<>> =>
       /\ report[1].processed = Cardinality(configOk)
       /\ report[1].total = Len(filteredRepos)

C7_Witness ==
  /\ pc = "done"
  /\ successfullyProcessed = 1
  /\ configFailed = {2}
  /\ secretByPrecedence = {}
  /\ codeByPrecedence = {}

-----------------------------------------------------------------------------
(* C8 *)

\* C8, as stated: once the summary and the listing have succeeded no failure
\* about a repository ends the run: the repositories are visited once each in
\* list order and the run ends with the final report and exit status 0.
C8_RepositoryFailuresNotFatal ==
  repoCountLine # <<>> =>
    /\ pc # "crashed"
    /\ visited = [k \in 1..Len(visited) |-> k]
    /\ Len(visited) <= Len(filteredRepos)
    /\ exitCode # <<>> =>
         /\ exitCode = <<0>>
         /\ report # <<>>
         /\ Len(visited) = Len(filteredRepos)

-----------------------------------------------------------------------------
(* C9 *)

\* C9: in verbose mode each printed list is strictly ascending in code-unit
\* order, so without a repeated login, and holds exactly the members of its
\* set, as many as the count printed for the tool.
C9_VerboseListsSorted ==
  (report # <<>> /\ argv.verbose) =>
     LET r == report[1]
     IN /\ Len(r.lists) = 2
        /\ StrictlyAscending(r.lists[1])
        /\ StrictlyAscending(r.lists[2])
        /\ Range(r.lists[1]) = Range(secretProtectionCommitters)
        /\ Range(r.lists[2]) = Range(codeScanningCommitters)
        /\ Len(r.lists[1]) = r.secret
        /\ Len(r.lists[2]) = r.code

C9_Witness ==
  /\ report # <<>>
  /\ argv.verbose
  /\ Len(report[1].lists[1]) >= 3
  /\ report[1].lists[1] # secretProtectionCommitters

-----------------------------------------------------------------------------
(* C10 *)

\* C10: one request is sent again at most once after a primary rate-limit
\* response and never after a secondary one; a rate-limit response that is
\* not retried makes the request fail.
C10_SingleRetry ==
  /\ [](/\ retryLog.primary <= 1
        /\ retryLog.secondary = 0
        /\ retryCount = retryLog.primary)
  /\ [][/\ (pc \in Awaiting /\ pc' = pc /\ retryCount >= 1) =>
             (gaveUp' /\ retryCount' = retryCount)
        /\ (gaveUp /\ pc' # pc) => pc' \in {"crashed", "loop"}]_vars

C10_Witness ==
  /\ gaveUp
  /\ retryLog.primary = 1
  /\ pc = "config"

====
